---- MODULE Spec2Model ----
(***************************************************************************)
(* Model of chamaken/logger: a syslog-style priority filter over Go's log  *)
(* package.  The repository holds two revisions of the one file:           *)
(*   src/logger.go         the package keeps a global `upto` and delegates *)
(*                         to the log package's standard logger;           *)
(*   src/unnamed/part_000  the package keeps `std`, a *Logger, and         *)
(*                         SetOutput rebuilds it from its own getters.     *)
(* Go's int is modelled at its 64-bit width as the set of its one-bits     *)
(* (bit positions 0..63, two's complement), int32 as a set within 0..31.   *)
(***************************************************************************)
EXTENDS Integers, Sequences, FiniteSets, TLC

VARIABLES
    alg,        \* the mask algebra applied to drawn inputs: [fn, lvl, fac, res]
    variant,    \* which revision of the file is running
    phase,      \* "vars" (package variables set), "range" (init's loop),
                \* "run" (main is running), "exited" (os.Exit or a panic)
    s,          \* init's local s, the value of GOLOGLEVEL
    todo,       \* the keys of Levels init's range loop has yet to visit
    hp,         \* the Logger objects: hp[std] is the package's, the rest
                \* were built by the caller's NewLogger
    std,        \* which object the package-level functions use
    pkgUsed,    \* whether the caller has used the package-level functions
    thr,        \* history: per object, the level last asked for by the
                \* caller (NewLogger, SetLevel/SetPriority, init)
    last,       \* history: the call that returned last and the lines it
                \* handed to its writer
    outs,       \* history: how many package-level SetOutput calls returned
    pc,         \* SpecConc: where each goroutine is in its call
    loc,        \* SpecConc: each goroutine's locals
    asked,      \* SpecConc, history: the levels asked for on the shared
                \* logger, by construction or SetLevel/SetPriority
    settled     \* SpecConc, history: L once SetLevel/SetPriority(L) has
                \* returned, until the next such call starts

(***************************************************************************)
(* Bounds of the model and constants of the program.                       *)
(***************************************************************************)
MaxLevel == 66          \* levels drawn for the algebra: -MaxLevel..MaxLevel
NThreads == 2           \* goroutines of SpecConc
MaxRebuilds == 1        \* SpecConc: package-level SetOutput calls of part_000
MaxSetOutputs == 1      \* Spec: package-level SetOutput calls in a run
MaxLoggers == 1         \* loggers the caller works with: the ones it builds
                        \* and, once it calls a package-level function,
                        \* the package's

WordBits == 64          \* width of Go's int and uint (64-bit build)
Int32Bits == 32         \* width of int32

LOG_EMERG == 0
LOG_ALERT == 1
LOG_CRIT == 2
LOG_ERR == 3
LOG_WARNING == 4
LOG_NOTICE == 5
LOG_INFO == 6
LOG_DEBUG == 7
LOG_PRIMASK == 7        \* 0x07
INTERNAL_NOPRI == 16    \* 0x10
LOG_NFACILITIES == 24
LOG_FACMASK == 1016     \* 0x03f8
LstdFlags == 3          \* log.LstdFlags = log.Ldate | log.Ltime

Severities == LOG_EMERG..LOG_DEBUG
\* The levels the goroutines of SpecRace and SpecConc pass.
ConcLevels == {LOG_EMERG, LOG_ERR, LOG_DEBUG}

(***************************************************************************)
(* Machine integers as bit sets.                                           *)
(***************************************************************************)
Word == 0..(WordBits - 1)
Word32 == 0..(Int32Bits - 1)

\* Bit i of the two's complement form of n (n within the model checker's
\* 32-bit integers, sign-extended above bit 30).
BitOf(n, i) == IF i < 31 THEN (n \div (2 ^ i)) % 2 = 1 ELSE n < 0

\* int(n) / uint(n): the 64-bit pattern of n.
Bits(n) == {i \in Word : BitOf(n, i)}

RECURSIVE Val(_)
\* The unsigned value of a bit set (used only where it fits).
Val(S) == IF S = {} THEN 0
          ELSE LET k == CHOOSE k \in S : TRUE IN (2 ^ k) + Val(S \ {k})

MinOf(S) == CHOOSE k \in S : \A j \in S : k <= j

\* The signed value of a 64-bit pattern that is the sign extension of a
\* 32-bit one.
ToInt(x) == IF (WordBits - 1) \in x
            THEN 0 - Val({i \in 0..30 : i \notin x}) - 1
            ELSE Val(x \cap 0..30)

\* x + 1 and x - 1, wrapping at width w.
IncW(x, w) == LET z == (0..(w - 1)) \ x
              IN IF z = {} THEN {}
                 ELSE (x \cup {MinOf(z)}) \ (0..(MinOf(z) - 1))
DecW(x, w) == IF x = {} THEN 0..(w - 1)
              ELSE (x \ {MinOf(x)}) \cup (0..(MinOf(x) - 1))

\* 1 << n for an unsigned shift count n (a bit set): zero once n reaches
\* the width.
Shl1(n) == IF n \subseteq 0..30 /\ Val(n) < WordBits THEN {Val(n)} ELSE {}

\* x << n and the arithmetic x >> n at width w.
ShlW(x, n, w) == {i + n : i \in x} \cap (0..(w - 1))
SarW(x, n, w) == {i \in 0..(w - 1) :
                    IF i + n <= w - 1 THEN (i + n) \in x ELSE (w - 1) \in x}

\* a + b on int32, wrapping: two 16-bit limbs.
Add32(a, b) ==
    LET lo(x) == Val(x \cap 0..15)
        hi(x) == Val({i - 16 : i \in x \cap 16..31})
        slo == lo(a) + lo(b)
        shi == (hi(a) + hi(b) + (slo \div 65536)) % 65536
    IN  {i \in 0..15 : BitOf(slo % 65536, i)}
          \cup {i + 16 : i \in {j \in 0..15 : BitOf(shi, j)}}

(***************************************************************************)
(* The mask algebra.                                                       *)
(***************************************************************************)
Facilities == {f * 8 : f \in (0..11) \cup (16..23)}

\* func LOG_PRI(p int) Level
LOG_PRI(p) == ToInt(Bits(p) \cap Bits(LOG_PRIMASK))

\* func LOG_MAKEPRI(fac Facility, pri Level) int
LOG_MAKEPRI(fac, pri) == ToInt(ShlW(Bits(fac), 3, WordBits) \cup Bits(pri))

\* func LOG_FAC(p int) Facility
LOG_FAC(p) == ToInt(SarW(Bits(p) \cap Bits(LOG_FACMASK), 3, WordBits))

\* func LOG_MASK(pri Level) int
LOG_MASK(pri) == Shl1(Bits(pri))

\* A LOG_UPTO that validates its argument, clamping it into 0..7.
LOG_UPTO_Clamped(pri) ==
    LET p == IF pri < LOG_EMERG THEN LOG_EMERG
             ELSE IF pri > LOG_DEBUG THEN LOG_DEBUG ELSE pri
    IN  DecW(Shl1(IncW(Bits(p), WordBits)), WordBits)

\* func LOG_UPTO(pri Level) int
LOG_UPTO(pri) == DecW(Shl1(IncW(Bits(pri), WordBits)), WordBits)

\* The masks 0x55555555, 0x33333333, 0x0f0f0f0f, 0x00ff00ff, 0x0000ffff.
M55 == {i \in Word32 : i % 2 = 0}
M33 == {i \in Word32 : i % 4 < 2}
M0f == {i \in Word32 : i % 8 < 4}
Mff == {i \in Word32 : i % 16 < 8}
Mffff == {i \in Word32 : i < 16}

PopStep(b, n, m) == Add32(b \cap m, SarW(b, n, Int32Bits) \cap m)

\* func (l *Logger) Priority() Level, on the mask l.upto
Priority(upto) ==
    LET b0 == ((Word \ upto) \cap IncW(upto, WordBits)) \cap Word32
        b1 == DecW(b0, Int32Bits)
        b2 == PopStep(b1, 1, M55)
        b3 == PopStep(b2, 2, M33)
        b4 == PopStep(b3, 4, M0f)
        b5 == PopStep(b4, 8, Mff)
        b6 == PopStep(b5, 16, Mffff)
    IN  ToInt(IF (Int32Bits - 1) \in b6 THEN b6 \cup (Word \ Word32) ELSE b6)

\* LOG_UPTO, LOG_MASK and Priority tabulated over the arguments the calls
\* below can pass them (levels 0..7, INTERNAL_NOPRI, and what Priority
\* returns), so that each is computed once.
UptoOf == [pri \in 0..(Int32Bits + 1) |-> LOG_UPTO(pri)]
MaskOf == [pri \in Severities |-> LOG_MASK(pri)]
PriorityOf == [m \in {UptoOf[pri] : pri \in DOMAIN UptoOf} |-> Priority(m)]

(***************************************************************************)
(* Strings are sequences of one-character strings, so that                 *)
(* strings.ToLower is computed and not assumed.                            *)
(***************************************************************************)
Upper == << "A", "B", "C", "D", "E", "F", "G", "H", "I", "J", "K", "L", "M",
            "N", "O", "P", "Q", "R", "S", "T", "U", "V", "W", "X", "Y", "Z" >>
Lower == << "a", "b", "c", "d", "e", "f", "g", "h", "i", "j", "k", "l", "m",
            "n", "o", "p", "q", "r", "s", "t", "u", "v", "w", "x", "y", "z" >>

\* strings.ToLower
ToLower(str) ==
    [n \in 1..Len(str) |->
        IF \E u \in 1..Len(Upper) : Upper[u] = str[n]
        THEN Lower[CHOOSE u \in 1..Len(Upper) : Upper[u] = str[n]]
        ELSE str[n]]

\* var Levels = map[Level]string
Levels ==
    (LOG_ALERT :> << "a", "l", "e", "r", "t" >>) @@
    (LOG_CRIT :> << "c", "r", "i", "t" >>) @@
    (LOG_DEBUG :> << "d", "e", "b", "u", "g" >>) @@
    (LOG_EMERG :> << "e", "m", "e", "r", "g" >>) @@
    (LOG_ERR :> << "e", "r", "r" >>) @@
    (LOG_INFO :> << "i", "n", "f", "o" >>) @@
    (INTERNAL_NOPRI :> << "n", "o", "n", "e" >>) @@
    (LOG_NOTICE :> << "n", "o", "t", "i", "c", "e" >>) @@
    (LOG_WARNING :> << "w", "a", "r", "n", "i", "n", "g" >>)

TagPanic == << "p", "a", "n", "i", "c" >>
TagFatal == << "f", "a", "t", "a", "l" >>

\* Values of GOLOGLEVEL the process is started with; os.Getenv gives ""
\* for an unset variable as for an empty one.
EnvValues ==
    { << >>,
      << "D", "E", "B", "U", "G" >>,
      << "b", "o", "g", "u", "s" >>,
      << "N", "o", "n", "e" >>,
      << "W", "a", "r", "n", "i", "n", "g" >> }

Variants == {"logger.go", "part_000"}
Writers == {"stderr", "buf"}
\* The writer the caller hands NewLogger.
NewWriters == {"buf"}
Prefixes == { << >>, << "a", "p", "p", ":" >> }
FlagSet == {0, LstdFlags}
\* What the goroutines of SpecConc pass to SetOutput, SetPrefix, SetFlags.
ConcWriters == {"buf"}
ConcPrefixes == { << "a", "p", "p", ":" >> }
ConcFlags == {0}

(***************************************************************************)
(* The Logger objects and the log package underneath them.                 *)
(***************************************************************************)
\* type Logger struct { logger *log.Logger; upto int }; the log.Logger is
\* its writer, prefix and flags.
LoggerObj(out, prefix, flag, upto) ==
    [upto |-> upto, out |-> out, prefix |-> prefix, flags |-> flag]

\* func NewLogger(out io.Writer, prefix string, flag int, priority Level)
NewLoggerObj(out, prefix, flag, priority) ==
    LoggerObj(out, prefix, flag, UptoOf[priority])

\* log.Logger.Output: one line, with the logger's prefix and header flags,
\* to the logger's writer.
Output(l, tag) ==
    << [w |-> l.out, prefix |-> l.prefix, flags |-> l.flags, tag |-> tag] >>

\* The test every severity method makes: l.upto & LOG_MASK(prio) != 0
Enabled(upto, prio) == (upto \cap MaskOf[prio]) # {}

Call(op, obj, sev, env, lines) ==
    [op |-> op, obj |-> obj, sev |-> sev, env |-> env, lines |-> lines]

\* What last holds after a call that configures and writes no line.
Configured == Call("configure", 0, 0, << >>, << >>)

AlgIdle == [fn |-> "idle", lvl |-> 0, fac |-> 0, res |-> {}]

Instances == {i \in DOMAIN hp : i # std}

\* The caller may turn to logger i: one it built, or the package's if it
\* uses it already or works with fewer than MaxLoggers.
MayUse(i) ==
    /\ i \in DOMAIN hp
    /\ i = std => (pkgUsed \/ Cardinality(Instances) < MaxLoggers)

(***************************************************************************)
(* Package initialisation: the package variables, then init().             *)
(***************************************************************************)
\* part_000: var std = NewLogger(os.Stderr, "", log.LstdFlags, LOG_ERR);
\* logger.go: var upto int (zero) beside the log package's own logger.
Init ==
    /\ alg = AlgIdle
    /\ variant \in Variants
    /\ phase = "vars"
    /\ s = << >>
    /\ todo = {}
    /\ std = 1
    /\ pkgUsed = FALSE
    /\ hp = << IF variant = "part_000"
               THEN NewLoggerObj("stderr", << >>, LstdFlags, LOG_ERR)
               ELSE LoggerObj("stderr", << >>, LstdFlags, {}) >>
    /\ thr = << LOG_ERR >>
    /\ last = Call("none", 0, 0, << >>, << >>)
    /\ outs = 0
    /\ pc = << >>
    /\ loc = << >>
    /\ asked = {}
    /\ settled = 0

concVars == << pc, loc, asked, settled >>

\* init() up to its loop: logger.go sets upto = LOG_UPTO(LOG_ERR); both
\* read GOLOGLEVEL.
InitBegin(e) ==
    /\ phase = "vars"
    /\ phase' = "range"
    /\ s' = e
    /\ todo' = DOMAIN Levels
    /\ hp' = IF variant = "logger.go"
             THEN [hp EXCEPT ![std].upto = UptoOf[LOG_ERR]]
             ELSE hp
    /\ UNCHANGED << alg, variant, pkgUsed, std, thr, last >>
    /\ UNCHANGED << outs, concVars >>

\* An init loop that compares GOLOGLEVEL as it is, not lower-cased.
InitRange_NoLower(k) ==
    /\ phase = "range"
    /\ k \in todo
    /\ IF s = Levels[k]
       THEN /\ hp' = [hp EXCEPT ![std].upto = UptoOf[k]]
            /\ thr' = [thr EXCEPT ![std] = k]
            /\ todo' = IF variant = "part_000" THEN {} ELSE todo \ {k}
       ELSE /\ todo' = todo \ {k}
            /\ UNCHANGED << hp, thr >>
    /\ UNCHANGED << alg, variant, pkgUsed, phase, s, std, last >>
    /\ UNCHANGED << outs, concVars >>

\* One iteration of `for k, v := range(Levels)`, in the map's order:
\* logger.go assigns upto and goes on, part_000 calls SetPriority and breaks.
InitRange(k) ==
    /\ phase = "range"
    /\ k \in todo
    /\ IF ToLower(s) = Levels[k]
       THEN /\ hp' = [hp EXCEPT ![std].upto = UptoOf[k]]
            /\ thr' = [thr EXCEPT ![std] = k]
            /\ todo' = IF variant = "part_000" THEN {} ELSE todo \ {k}
       ELSE /\ todo' = todo \ {k}
            /\ UNCHANGED << hp, thr >>
    /\ UNCHANGED << alg, variant, pkgUsed, phase, s, std, last >>
    /\ UNCHANGED << outs, concVars >>

\* init() returns.
InitEnd ==
    /\ phase = "range"
    /\ todo = {}
    /\ phase' = "run"
    /\ last' = Call("init", std, 0, s, << >>)
    /\ s' = << >>
    /\ UNCHANGED << alg, variant, pkgUsed, todo, hp, std, thr >>
    /\ UNCHANGED << outs, concVars >>

(***************************************************************************)
(* The calls, each run to completion (Spec: one goroutine).  Object std is *)
(* reached by the package-level functions, the others by the methods.      *)
(***************************************************************************)
Running == phase = "run"

\* NewLogger, called by the program.
NewLogger(out, prefix, flag, priority) ==
    /\ Running
    /\ Cardinality(Instances) + (IF pkgUsed THEN 1 ELSE 0) < MaxLoggers
    /\ hp' = Append(hp, NewLoggerObj(out, prefix, flag, priority))
    /\ thr' = Append(thr, priority)
    /\ last' = Configured
    /\ UNCHANGED << alg, variant, pkgUsed, phase, s, todo, std >>
    /\ UNCHANGED << outs, concVars >>

\* SetFlags / (l *Logger) SetFlags
SetFlags(i, flag) ==
    /\ Running
    /\ MayUse(i)
    /\ pkgUsed' = (pkgUsed \/ i = std)
    /\ hp' = [hp EXCEPT ![i].flags = flag]
    /\ last' = Configured
    /\ UNCHANGED << alg, variant, phase, s, todo, std, thr >>
    /\ UNCHANGED << outs, concVars >>

\* SetPrefix / (l *Logger) SetPrefix
SetPrefix(i, prefix) ==
    /\ Running
    /\ MayUse(i)
    /\ pkgUsed' = (pkgUsed \/ i = std)
    /\ hp' = [hp EXCEPT ![i].prefix = prefix]
    /\ last' = Configured
    /\ UNCHANGED << alg, variant, phase, s, todo, std, thr >>
    /\ UNCHANGED << outs, concVars >>

\* SetLevel (logger.go) / SetPriority (part_000), function and method.
SetThreshold(i, priority) ==
    /\ Running
    /\ MayUse(i)
    /\ pkgUsed' = (pkgUsed \/ i = std)
    /\ hp' = [hp EXCEPT ![i].upto = UptoOf[priority]]
    /\ thr' = [thr EXCEPT ![i] = priority]
    /\ last' = Configured
    /\ UNCHANGED << alg, variant, phase, s, todo, std >>
    /\ UNCHANGED << outs, concVars >>

\* SetOutput: logger.go hands the writer to the log package; part_000
\* builds a new Logger from Prefix(), Flags() and Priority() of the old one,
\* which std then no longer refers to.
SetOutput(out) ==
    /\ Running
    /\ MayUse(std)
    /\ outs < MaxSetOutputs
    /\ pkgUsed' = TRUE
    /\ hp' = [hp EXCEPT ![std] =
                IF variant = "part_000"
                THEN NewLoggerObj(out, hp[std].prefix, hp[std].flags,
                                  PriorityOf[hp[std].upto])
                ELSE [hp[std] EXCEPT !.out = out]]
    /\ last' = Configured
    /\ outs' = outs + 1
    /\ UNCHANGED << alg, variant, phase, s, todo, std, thr >>
    /\ UNCHANGED concVars

\* Emerg .. Debug, function and method: the mask test, then printf.
Emit(i, prio) ==
    /\ Running
    /\ MayUse(i)
    /\ pkgUsed' = (pkgUsed \/ i = std)
    /\ last' = Call("Emit", i, prio, << >>,
                    IF Enabled(hp[i].upto, prio)
                    THEN Output(hp[i], Levels[prio]) ELSE << >>)
    /\ UNCHANGED << alg, variant, phase, s, todo, hp, std, thr >>
    /\ UNCHANGED << outs, concVars >>

\* Panic, function and method: the line, then panic(s); the caller
\* recovers or the process dies.
Panic(i) ==
    /\ Running
    /\ MayUse(i)
    /\ pkgUsed' = (pkgUsed \/ i = std)
    /\ last' = Call("Panic", i, 0, << >>, Output(hp[i], TagPanic))
    /\ phase' \in {"run", "exited"}
    /\ UNCHANGED << alg, variant, s, todo, hp, std, thr >>
    /\ UNCHANGED << outs, concVars >>

\* A Fatal that is filtered like a severity method, at LOG_CRIT.
Fatal_Filtered(i) ==
    /\ Running
    /\ MayUse(i)
    /\ pkgUsed' = (pkgUsed \/ i = std)
    /\ last' = Call("Fatal", i, 0, << >>,
                    IF Enabled(hp[i].upto, LOG_CRIT)
                    THEN Output(hp[i], TagFatal) ELSE << >>)
    /\ phase' = "exited"
    /\ UNCHANGED << alg, variant, s, todo, hp, std, thr >>
    /\ UNCHANGED << outs, concVars >>

\* Fatal, function and method: the line, then os.Exit(1).
Fatal(i) ==
    /\ Running
    /\ MayUse(i)
    /\ pkgUsed' = (pkgUsed \/ i = std)
    /\ last' = Call("Fatal", i, 0, << >>, Output(hp[i], TagFatal))
    /\ phase' = "exited"
    /\ UNCHANGED << alg, variant, s, todo, hp, std, thr >>
    /\ UNCHANGED << outs, concVars >>

vars == << alg, variant, phase, s, todo, hp, std, pkgUsed, thr, last, outs,
           pc, loc, asked, settled >>

Next ==
    \/ \E e \in EnvValues : InitBegin(e)
    \/ \E k \in DOMAIN Levels : InitRange(k)
    \/ InitEnd
    \/ \E out \in NewWriters, prefix \in Prefixes, flag \in FlagSet,
          priority \in Severities : NewLogger(out, prefix, flag, priority)
    \/ \E i \in DOMAIN hp, flag \in FlagSet : SetFlags(i, flag)
    \/ \E i \in DOMAIN hp, prefix \in Prefixes : SetPrefix(i, prefix)
    \/ \E i \in DOMAIN hp, priority \in Severities : SetThreshold(i, priority)
    \/ \E out \in Writers : SetOutput(out)
    \/ \E i \in DOMAIN hp, prio \in Severities : Emit(i, prio)
    \/ \E i \in DOMAIN hp : Panic(i)
    \/ \E i \in DOMAIN hp : Fatal(i)

Spec == Init /\ [][Next]_vars

(***************************************************************************)
(* Claims about the calls (checked under Spec).                            *)
(***************************************************************************)
\* C1 (as claimed): with threshold L in 0..7 last asked for on a logger (by
\* construction, init or SetLevel/SetPriority), a severity-S call on it
\* writes exactly one line if S <= L and nothing if S > L.
C1_ThresholdFilter ==
    (last.op = "Emit" /\ thr[last.obj] \in Severities)
        => Len(last.lines) = (IF last.sev <= thr[last.obj] THEN 1 ELSE 0)

\* C2: Fatal and Panic, function and method, hand exactly their line to
\* the logger's writer whatever the mask is.
C2_FatalPanicAlwaysWrite ==
    last.op \in {"Fatal", "Panic"}
        => /\ Len(last.lines) = 1
           /\ last.lines[1].w = hp[last.obj].out
           /\ last.lines[1].tag =
                 (IF last.op = "Fatal" THEN TagFatal ELSE TagPanic)

C2_Witness ==
    /\ last.op = "Fatal"
    /\ last.obj = std
    /\ variant = "part_000"
    /\ thr[std] = LOG_EMERG
    /\ hp[std].upto = {LOG_EMERG}
    /\ Len(last.lines) = 1

\* The level the claim names for a value of GOLOGLEVEL.
NamedLevel(e) ==
    IF \E k \in DOMAIN Levels : Levels[k] = ToLower(e)
    THEN CHOOSE k \in DOMAIN Levels : Levels[k] = ToLower(e)
    ELSE LOG_ERR

EnvDEBUG == << "D", "E", "B", "U", "G" >>
EnvBogus == << "b", "o", "g", "u", "s" >>

\* C3: when init has returned and nothing has been called yet, the
\* package's mask is LOG_UPTO(K), K the key of Levels named by the
\* lower-cased GOLOGLEVEL, and LOG_UPTO(LOG_ERR) when no key is; "DEBUG"
\* enables all 8 severities, "bogus" exactly Emerg, Alert, Crit and Error.
C3_InitialMask ==
    (phase = "run" /\ last.op = "init")
        => /\ hp[std].upto = LOG_UPTO(NamedLevel(last.env))
           /\ last.env = EnvDEBUG
                 => \A prio \in Severities : Enabled(hp[std].upto, prio)
           /\ last.env \in {EnvBogus, << >>}
                 => \A prio \in Severities :
                       Enabled(hp[std].upto, prio) <=> prio <= LOG_ERR

C3_Witness ==
    /\ phase = "run"
    /\ last.op = "init"
    /\ last.env = EnvDEBUG
    /\ hp[std].upto = LOG_EMERG..LOG_DEBUG

\* C4 (as claimed): once init has returned, the mask of the package's
\* logger and of every Logger is (1 << (T+1)) - 1 for some T in 0..7.
C4_MaskCanonical ==
    phase \in {"run", "exited"}
        => \A i \in DOMAIN hp :
              \E T \in Severities : hp[i].upto = LOG_UPTO(T)

\* C9 (as claimed): the package's SetOutput leaves the package's mask,
\* prefix and flags as they were and makes the writer the one given.
C9_SetOutputFrame ==
    [][\A out \in Writers :
          (SetOutput(out) /\ thr[std] \in Severities)
             => /\ hp'[std].upto = hp[std].upto
                /\ hp'[std].prefix = hp[std].prefix
                /\ hp'[std].flags = hp[std].flags
                /\ hp'[std].out = out]_vars

(***************************************************************************)
(* SpecConc: goroutines calling into one logger with no synchronisation    *)
(* of their own, after init has returned with GOLOGLEVEL unset.  Every     *)
(* load and store of a word (std, upto) is one step; the log package       *)
(* guards its own fields with a mutex, so a read or write of out, prefix   *)
(* or flags is one step as well.  With pkgUsed the goroutines call the     *)
(* package-level functions, else the methods of a Logger they share.       *)
(***************************************************************************)
Threads == 1..NThreads
NoLevel == 0 - 1

\* The Logger a call works on: what std holds when the call loads it, or
\* the receiver of the method.
Recv == IF pkgUsed THEN std ELSE 2

Idle ==
    [arg |-> 0, ptr |-> 0, prefix |-> << >>, flags |-> 0, prio |-> 0,
     expect |-> NoLevel, tested |-> FALSE, used |-> {}, due |-> NoLevel,
     lines |-> << >>]

ConcInit ==
    /\ alg = AlgIdle
    /\ variant \in Variants
    /\ phase = "threads"
    /\ s = << >>
    /\ todo = {}
    /\ std = 1
    /\ pkgUsed \in BOOLEAN
    /\ \E priority \in ConcLevels :
          /\ hp = IF pkgUsed
                  THEN << LoggerObj("stderr", << >>, LstdFlags,
                                    UptoOf[LOG_ERR]) >>
                  ELSE << LoggerObj("stderr", << >>, LstdFlags,
                                    UptoOf[LOG_ERR]),
                          NewLoggerObj("buf", << >>, 0, priority) >>
          /\ asked = IF pkgUsed THEN {LOG_ERR} ELSE {priority}
    /\ thr = << >>
    /\ last = Call("none", 0, 0, << >>, << >>)
    /\ outs = 0
    /\ pc = [t \in Threads |-> "idle"]
    /\ loc = [t \in Threads |-> Idle]
    /\ settled = NoLevel

seqVars == << alg, variant, phase, s, todo, pkgUsed, thr, last, outs >>

\* Emerg .. Debug: the call, and the load of std for `std.upto`.
EmitCall(t, prio) ==
    /\ pc[t] = "idle"
    /\ pc' = [pc EXCEPT ![t] = "emit_test"]
    /\ loc' = [loc EXCEPT ![t] =
                  [Idle EXCEPT !.arg = prio, !.ptr = Recv,
                               !.expect = settled]]
    /\ UNCHANGED << seqVars, hp, std, asked, settled >>

\* The load of upto and `upto & LOG_MASK(prio) != 0`.
EmitTest(t) ==
    /\ pc[t] = "emit_test"
    /\ LET m == hp[loc[t].ptr].upto IN
          /\ loc' = [loc EXCEPT
                        ![t].tested = TRUE,
                        ![t].used = m,
                        ![t].due = IF settled = loc[t].expect
                                   THEN loc[t].expect ELSE NoLevel]
          /\ pc' = [pc EXCEPT ![t] = IF Enabled(m, loc[t].arg)
                                     THEN "emit_print" ELSE "emit_ret"]
    /\ UNCHANGED << seqVars, hp, std, asked, settled >>

\* printf: the package-level functions load std once more (`std.printf`),
\* then the line goes to that logger's writer.
EmitPrint(t) ==
    /\ pc[t] = "emit_print"
    /\ loc' = [loc EXCEPT ![t].lines = Output(hp[Recv], Levels[loc[t].arg])]
    /\ pc' = [pc EXCEPT ![t] = "emit_ret"]
    /\ UNCHANGED << seqVars, hp, std, asked, settled >>

EmitReturn(t) ==
    /\ pc[t] = "emit_ret"
    /\ pc' = [pc EXCEPT ![t] = "idle"]
    /\ loc' = [loc EXCEPT ![t] = Idle]
    /\ UNCHANGED << seqVars, hp, std, asked, settled >>

\* SetLevel / SetPriority: the call, and the load of std for
\* `std.SetPriority` (logger.go's SetLevel has none to load).
SetThresholdCall(t, priority) ==
    /\ pc[t] = "idle"
    /\ pc' = [pc EXCEPT ![t] = "set_store"]
    /\ loc' = [loc EXCEPT ![t] = [Idle EXCEPT !.arg = priority, !.ptr = Recv]]
    /\ asked' = asked \cup {priority}
    /\ settled' = NoLevel
    /\ UNCHANGED << seqVars, hp, std >>

\* A store of upto that writes only its low four bits.
SetThresholdStore_Torn(t) ==
    /\ pc[t] = "set_store"
    /\ hp' = [hp EXCEPT ![loc[t].ptr].upto =
                 (UptoOf[loc[t].arg] \cap (0..3)) \cup (@ \ (0..3))]
    /\ pc' = [pc EXCEPT ![t] = "idle"]
    /\ loc' = [loc EXCEPT ![t] = Idle]
    /\ settled' = IF \E u \in Threads \ {t} : pc[u] = "set_store"
                  THEN NoLevel ELSE loc[t].arg
    /\ UNCHANGED << seqVars, std, asked >>

\* l.upto = LOG_UPTO(priority) / upto = LOG_UPTO(priority): one store of a
\* word, and the return.
SetThresholdStore(t) ==
    /\ pc[t] = "set_store"
    /\ hp' = [hp EXCEPT ![loc[t].ptr].upto = UptoOf[loc[t].arg]]
    /\ pc' = [pc EXCEPT ![t] = "idle"]
    /\ loc' = [loc EXCEPT ![t] = Idle]
    /\ settled' = IF \E u \in Threads \ {t} : pc[u] = "set_store"
                  THEN NoLevel ELSE loc[t].arg
    /\ UNCHANGED << seqVars, std, asked >>

\* SetPrefix: the call and the load of std, then the log package's write.
SetPrefixCall(t, prefix) ==
    /\ pc[t] = "idle"
    /\ pc' = [pc EXCEPT ![t] = "prefix_store"]
    /\ loc' = [loc EXCEPT ![t] = [Idle EXCEPT !.prefix = prefix, !.ptr = Recv]]
    /\ UNCHANGED << seqVars, hp, std, asked, settled >>

SetPrefixStore(t) ==
    /\ pc[t] = "prefix_store"
    /\ hp' = [hp EXCEPT ![loc[t].ptr].prefix = loc[t].prefix]
    /\ pc' = [pc EXCEPT ![t] = "idle"]
    /\ loc' = [loc EXCEPT ![t] = Idle]
    /\ UNCHANGED << seqVars, std, asked, settled >>

\* SetFlags: the call and the load of std, then the log package's write.
SetFlagsCall(t, flag) ==
    /\ pc[t] = "idle"
    /\ pc' = [pc EXCEPT ![t] = "flags_store"]
    /\ loc' = [loc EXCEPT ![t] = [Idle EXCEPT !.flags = flag, !.ptr = Recv]]
    /\ UNCHANGED << seqVars, hp, std, asked, settled >>

SetFlagsStore(t) ==
    /\ pc[t] = "flags_store"
    /\ hp' = [hp EXCEPT ![loc[t].ptr].flags = loc[t].flags]
    /\ pc' = [pc EXCEPT ![t] = "idle"]
    /\ loc' = [loc EXCEPT ![t] = Idle]
    /\ UNCHANGED << seqVars, std, asked, settled >>

\* logger.go's SetOutput: log.SetOutput, one write under log's mutex.
SetOutputLog(t, out) ==
    /\ pc[t] = "idle"
    /\ pkgUsed
    /\ variant = "logger.go"
    /\ hp' = [hp EXCEPT ![std].out = out]
    /\ UNCHANGED << seqVars, std, asked, settled, pc, loc >>

SettingOutput == {t \in Threads : pc[t] \in {"so_prefix", "so_flags_ld",
                     "so_flags", "so_prio_ld", "so_prio", "so_store"}}

\* part_000's SetOutput: the call, and the load of std for Prefix().
SetOutputCall(t, out) ==
    /\ pc[t] = "idle"
    /\ pkgUsed
    /\ variant = "part_000"
    /\ Len(hp) + Cardinality(SettingOutput) < 1 + MaxRebuilds
    /\ pc' = [pc EXCEPT ![t] = "so_prefix"]
    /\ loc' = [loc EXCEPT ![t] = [Idle EXCEPT !.arg = out, !.ptr = std]]
    /\ UNCHANGED << seqVars, hp, std, asked, settled >>

\* Prefix(): the read of the prefix.
SetOutputPrefix(t) ==
    /\ pc[t] = "so_prefix"
    /\ loc' = [loc EXCEPT ![t].prefix = hp[loc[t].ptr].prefix]
    /\ pc' = [pc EXCEPT ![t] = "so_flags_ld"]
    /\ UNCHANGED << seqVars, hp, std, asked, settled >>

\* Flags(): the load of std, then the read of the flags.
SetOutputFlagsLoad(t) ==
    /\ pc[t] = "so_flags_ld"
    /\ loc' = [loc EXCEPT ![t].ptr = std]
    /\ pc' = [pc EXCEPT ![t] = "so_flags"]
    /\ UNCHANGED << seqVars, hp, std, asked, settled >>

SetOutputFlags(t) ==
    /\ pc[t] = "so_flags"
    /\ loc' = [loc EXCEPT ![t].flags = hp[loc[t].ptr].flags]
    /\ pc' = [pc EXCEPT ![t] = "so_prio_ld"]
    /\ UNCHANGED << seqVars, hp, std, asked, settled >>

\* Priority(): the load of std, then the load of upto and the count.
SetOutputPriorityLoad(t) ==
    /\ pc[t] = "so_prio_ld"
    /\ loc' = [loc EXCEPT ![t].ptr = std]
    /\ pc' = [pc EXCEPT ![t] = "so_prio"]
    /\ UNCHANGED << seqVars, hp, std, asked, settled >>

SetOutputPriority(t) ==
    /\ pc[t] = "so_prio"
    /\ loc' = [loc EXCEPT ![t].prio = PriorityOf[hp[loc[t].ptr].upto]]
    /\ pc' = [pc EXCEPT ![t] = "so_store"]
    /\ UNCHANGED << seqVars, hp, std, asked, settled >>

\* std = NewLogger(out, prefix, flags, priority): the new Logger, and the
\* store of std.
SetOutputStore(t) ==
    /\ pc[t] = "so_store"
    /\ hp' = Append(hp, NewLoggerObj(loc[t].arg, loc[t].prefix,
                                     loc[t].flags, loc[t].prio))
    /\ std' = Len(hp) + 1
    /\ pc' = [pc EXCEPT ![t] = "idle"]
    /\ loc' = [loc EXCEPT ![t] = Idle]
    /\ UNCHANGED << seqVars, asked, settled >>

ConcNext ==
    \E t \in Threads :
       \/ \E prio \in ConcLevels : EmitCall(t, prio)
       \/ EmitTest(t)
       \/ EmitPrint(t)
       \/ EmitReturn(t)
       \/ \E priority \in ConcLevels : SetThresholdCall(t, priority)
       \/ SetThresholdStore(t)
       \/ \E prefix \in ConcPrefixes : SetPrefixCall(t, prefix)
       \/ SetPrefixStore(t)
       \/ \E flag \in ConcFlags : SetFlagsCall(t, flag)
       \/ SetFlagsStore(t)
       \/ \E out \in ConcWriters : SetOutputLog(t, out)
       \/ \E out \in ConcWriters : SetOutputCall(t, out)
       \/ SetOutputPrefix(t)
       \/ SetOutputFlagsLoad(t)
       \/ SetOutputFlags(t)
       \/ SetOutputPriorityLoad(t)
       \/ SetOutputPriority(t)
       \/ SetOutputStore(t)

SpecConc == ConcInit /\ [][ConcNext]_vars

\* SpecRace: the goroutines make only the calls that read and write the
\* mask.
RaceNext ==
    \E t \in Threads :
       \/ \E prio \in ConcLevels : EmitCall(t, prio)
       \/ EmitTest(t)
       \/ EmitPrint(t)
       \/ EmitReturn(t)
       \/ \E priority \in ConcLevels : SetThresholdCall(t, priority)
       \/ SetThresholdStore(t)

SpecRace == ConcInit /\ [][RaceNext]_vars

(***************************************************************************)
(* Claims about the goroutines (C6 under SpecRace, C8 under SpecConc).      *)
(***************************************************************************)
\* C6: under every interleaving of SetLevel/SetPriority and severity calls
\* on one logger, the mask a severity call tests is LOG_UPTO of a level
\* that the construction or a SetLevel/SetPriority call asked for, never a
\* mixture of two stores.
C6_TestedMaskWasStored ==
    \A t \in Threads :
       loc[t].tested
          => \E priority \in asked : loc[t].used = UptoOf[priority]

C6_Witness ==
    \E t \in Threads, u \in Threads :
       /\ t # u
       /\ loc[t].tested
       /\ pc[u] = "set_store"
       /\ loc[t].used = UptoOf[LOG_DEBUG]
       /\ loc[u].arg = LOG_EMERG
       /\ asked = {LOG_ERR, LOG_DEBUG, LOG_EMERG}

\* C8 (as claimed): a package-level severity call that starts after
\* SetLevel/SetPriority(L) has returned, with no other SetLevel/SetPriority
\* called since, tests LOG_UPTO(L), whatever SetOutput, SetPrefix and
\* SetFlags calls run beside it.
C8_SettledThresholdKept ==
    \A t \in Threads :
       (pkgUsed /\ loc[t].tested /\ loc[t].due # NoLevel)
          => loc[t].used = LOG_UPTO(loc[t].due)

(***************************************************************************)
(* SpecAlg: the pure functions applied to inputs drawn from bounded sets.  *)
(***************************************************************************)
LevelInputs == (0 - MaxLevel)..MaxLevel

AlgInit ==
    /\ alg \in [fn : {"input"}, lvl : LevelInputs, fac : Facilities,
                res : {{}}]
    /\ variant = "none"
    /\ phase = "algebra"
    /\ s = << >>
    /\ todo = {}
    /\ hp = << >>
    /\ std = 0
    /\ pkgUsed = FALSE
    /\ thr = << >>
    /\ last = Call("none", 0, 0, << >>, << >>)
    /\ outs = 0
    /\ pc = << >>
    /\ loc = << >>
    /\ asked = {}
    /\ settled = 0

algFrame == << variant, phase, s, todo, hp, std, pkgUsed, thr, last, outs,
              pc, loc, asked, settled >>

ApplyUPTO ==
    /\ alg.fn = "input"
    /\ alg' = [alg EXCEPT !.fn = "LOG_UPTO", !.res = LOG_UPTO(alg.lvl)]
    /\ UNCHANGED algFrame

ApplyMASK ==
    /\ alg.fn = "input"
    /\ alg' = [alg EXCEPT !.fn = "LOG_MASK", !.res = LOG_MASK(alg.lvl)]
    /\ UNCHANGED algFrame

\* Priority() of a logger whose mask is LOG_UPTO(lvl).
ApplyPriority ==
    /\ alg.fn = "input"
    /\ alg.lvl \in Severities
    /\ alg' = [alg EXCEPT !.fn = "Priority",
                          !.res = Priority(LOG_UPTO(alg.lvl))]
    /\ UNCHANGED algFrame

ApplyMAKEPRI ==
    /\ alg.fn = "input"
    /\ alg.lvl \in Severities
    /\ alg' = [alg EXCEPT !.fn = "LOG_MAKEPRI",
                          !.res = LOG_MAKEPRI(alg.fac, alg.lvl)]
    /\ UNCHANGED algFrame

AlgNext == ApplyUPTO \/ ApplyMASK \/ ApplyPriority \/ ApplyMAKEPRI

SpecAlg == AlgInit /\ [][AlgNext]_vars

(***************************************************************************)
(* Claims about the mask algebra (checked under SpecAlg).                  *)
(***************************************************************************)
OutsideCanonical(mask) == mask \ (LOG_EMERG..LOG_DEBUG) # {}

\* C5 (as claimed): a logger whose mask is LOG_UPTO(L), L in 0..7, returns L
\* from Priority().
C5_RoundTrip == alg.fn = "Priority" => alg.res = alg.lvl

\* C7 (as claimed): for every level outside 0..7 the mask LOG_UPTO returns
\* has at least one bit set outside bit positions 0..7.
C7_EveryOutsideLevel ==
    (alg.fn = "LOG_UPTO" /\ alg.lvl \notin Severities)
        => OutsideCanonical(alg.res)

\* C7 (amended): LOG_UPTO validates nothing; for every level outside 0..7
\* other than -1 the mask has a bit set outside positions 0..7, and for
\* level -1 the unsigned shift count wraps to 0 and the mask is 0.
C7_OutsideExceptMinusOne ==
    (alg.fn = "LOG_UPTO" /\ alg.lvl \notin Severities)
        => IF alg.lvl = 0 - 1 THEN alg.res = {}
           ELSE OutsideCanonical(alg.res)

C7_Witness ==
    /\ alg.fn = "LOG_UPTO"
    /\ alg.lvl = 0 - 2
    /\ alg.res = Word

\* C10 (as claimed): for every defined Facility constant f and level l in
\* 0..7, LOG_FAC(LOG_MAKEPRI(f, l)) = f and LOG_PRI(LOG_MAKEPRI(f, l)) = l.
C10_PackUnpack ==
    alg.fn = "LOG_MAKEPRI"
        => /\ LOG_FAC(alg.res) = alg.fac
           /\ LOG_PRI(alg.res) = alg.lvl

====
